---- MODULE Spec2Model ----
(***************************************************************************)
(* Model of the mons-builder team builder (src/team_builder.py): the type  *)
(* effectiveness calculator Pokemon.resists_type, the build accessor       *)
(* Pokemon.get_random_build, the loader TeamBuilder._load_pokemon, the     *)
(* greedy selection loop                                                   *)
(* TeamBuilder.build_team, TeamBuilder.generate_team_output and main.      *)
(*                                                                         *)
(* Multipliers are exact rationals <<n, d>> (n / d); the chart stores      *)
(* twice the multiplier (0 = immune, 1 = 0.5, 4 = 2) so that every product *)
(* the float arithmetic of the source computes exactly is computed exactly *)
(* here too.  None and the empty string are both falsy in the source and   *)
(* are both written "".                                                    *)
(***************************************************************************)
EXTENDS Integers, Sequences, FiniteSets, TLC

VARIABLES
    mode,              \* which entry point runs: "select" (generate_team_output) or "main"
    pokemon_list,      \* TeamBuilder.pokemon_list
    requirements,      \* the requirement table (COVERAGE_REQUIREMENTS), in declaration order
    team_playstyle,    \* the playstyle argument / config value ("" = None)
    included_pokemon,  \* main: config include list
    excluded_pokemon,  \* main: config exclude list
    bt_pc,             \* build_team: "idle", "while", "body", "return"
    team,              \* build_team: local team
    coverage,          \* build_team: local coverage
    unfulfilled,       \* build_team: local unfulfilled (keys, in table order)
    priority_type,     \* build_team: local priority_type of the last iteration
    last_pick,         \* build_team: branch that made the last append
    iters,             \* build_team: loop iterations entered so far (saturates at MaxIter)
    main_pc,           \* main / generate_team_output position
    main_team,         \* main: team
    has_ogerpon,       \* main: has_ogerpon
    output,            \* builds written out, in team order
    error,             \* "" or the exception that ended the program
    q_types,           \* resists_type query: self.types
    q_attack,          \* resists_type query: attack_type
    q_eff,             \* resists_type query: result (<<n, d>>) or <<>> before the call
    g_builds,          \* get_random_build query: self.builds
    g_tag,             \* get_random_build query: team_playstyle
    g_result,          \* get_random_build query: [called, ok, val] (payload or exception)
    db,                \* _load_pokemon: data, the entries of the JSON database
    load_pc,           \* _load_pokemon: "idle", "start", "for", "done", "crashed"
    load_i             \* _load_pokemon: position of the for loop in data

vars == <<mode, pokemon_list, requirements, team_playstyle, included_pokemon,
          excluded_pokemon, bt_pc, team, coverage, unfulfilled, priority_type,
          last_pick, iters, main_pc, main_team, has_ogerpon, output, error,
          q_types, q_attack, q_eff, g_builds, g_tag, g_result, db, load_pc, load_i>>

selVars == <<mode, pokemon_list, requirements, team_playstyle, included_pokemon,
             excluded_pokemon, bt_pc, team, coverage, unfulfilled, priority_type,
             last_pick, iters, main_pc, main_team, has_ogerpon, output, error>>

effVars == <<q_types, q_attack, q_eff>>

buildVars == <<g_builds, g_tag, g_result>>

loadVars == <<db, load_pc, load_i>>

----------------------------------------------------------------------------
(* Bounds of the model. *)

\* build_team's iteration counter saturates here (the loop itself is unbounded).
MaxIter == 8

\* Longest catalog drawn in Init.
MaxCatalog == 7

\* Longest type list of a resists_type query.
MaxTypes == 2

\* Longest build list of a get_random_build query.
MaxBuilds == 2

\* Longest JSON database handed to _load_pokemon.
MaxDb == 3

\* len(team) < 6 in build_team and main.
TeamSize == 6

----------------------------------------------------------------------------
(* TYPE_CHART, values doubled: 0 = immune, 1 = 0.5, 4 = 2. *)

TYPE_CHART ==
    [ normal   |-> [ghost |-> 0, rock |-> 1, steel |-> 1, fighting |-> 4],
      fire     |-> [fire |-> 1, water |-> 4, grass |-> 1, ice |-> 1, bug |-> 1,
                    rock |-> 4, dragon |-> 1, steel |-> 1, ground |-> 4],
      water    |-> [fire |-> 1, water |-> 1, grass |-> 4, electric |-> 4, ice |-> 1,
                    steel |-> 1],
      electric |-> [water |-> 1, electric |-> 1, flying |-> 1, ground |-> 4,
                    dragon |-> 1],
      grass    |-> [fire |-> 4, water |-> 1, grass |-> 1, poison |-> 4, ground |-> 1,
                    flying |-> 4, bug |-> 4, ice |-> 4, dragon |-> 1, steel |-> 4],
      ice      |-> [fire |-> 4, ice |-> 1, fighting |-> 4, rock |-> 4, steel |-> 4],
      fighting |-> [normal |-> 1, ice |-> 1, poison |-> 1, flying |-> 4, psychic |-> 4,
                    bug |-> 1, rock |-> 1, dark |-> 1, steel |-> 1, fairy |-> 4],
      poison   |-> [grass |-> 1, poison |-> 1, ground |-> 4, psychic |-> 4, bug |-> 1,
                    fairy |-> 1, steel |-> 0],
      ground   |-> [fire |-> 1, electric |-> 0, grass |-> 4, poison |-> 1, flying |-> 0,
                    bug |-> 1, rock |-> 1, water |-> 4, ice |-> 4],
      flying   |-> [electric |-> 4, grass |-> 1, fighting |-> 1, bug |-> 1, rock |-> 4,
                    ice |-> 4, ground |-> 0],
      psychic  |-> [fighting |-> 1, psychic |-> 1, bug |-> 4, ghost |-> 4, dark |-> 4],
      bug      |-> [fire |-> 4, grass |-> 1, fighting |-> 1, poison |-> 1, flying |-> 4,
                    rock |-> 4, steel |-> 1, fairy |-> 1],
      rock     |-> [normal |-> 1, fire |-> 1, water |-> 4, grass |-> 4, fighting |-> 4,
                    poison |-> 1, ground |-> 4, flying |-> 1, steel |-> 4],
      ghost    |-> [normal |-> 0, fighting |-> 0, poison |-> 1, bug |-> 1, ghost |-> 4,
                    dark |-> 4],
      dragon   |-> [dragon |-> 4, steel |-> 1, fairy |-> 4, ice |-> 4],
      dark     |-> [fighting |-> 4, psychic |-> 0, bug |-> 4, ghost |-> 1, dark |-> 1,
                    fairy |-> 4],
      steel    |-> [normal |-> 1, fire |-> 4, grass |-> 1, ice |-> 1, fighting |-> 4,
                    poison |-> 0, ground |-> 4, flying |-> 1, psychic |-> 1, bug |-> 1,
                    rock |-> 1, dragon |-> 1, steel |-> 1, fairy |-> 1],
      fairy    |-> [fighting |-> 1, poison |-> 4, bug |-> 1, dragon |-> 0, dark |-> 1,
                    steel |-> 4] ]

\* The type vocabulary of the chart, plus one label the chart does not know.
Types == (DOMAIN TYPE_CHART) \cup {"stellar"}

\* COVERAGE_REQUIREMENTS, in declaration order.
COVERAGE_REQUIREMENTS ==
    << <<"water", 2>>, <<"fighting", 2>>, <<"dragon", 2>>, <<"flying", 1>>,
       <<"electric", 2>>, <<"ground", 2>>, <<"dark", 1>> >>

----------------------------------------------------------------------------
(* Sequence helpers (Python list operations). *)

Range(s) == {s[i] : i \in 1..Len(s)}

Min(a, b) == IF a < b THEN a ELSE b

\* s[:n] for n >= 0
Take(s, n) == SubSeq(s, 1, Min(n, Len(s)))

\* [f(x) for x in s]: the names of a list of Pokemon
Names(s) == [i \in 1..Len(s) |-> s[i].name]

NoDuplicates(s) == \A i, j \in 1..Len(s) : i # j => s[i] # s[j]

----------------------------------------------------------------------------
(* Pokemon.resists_type *)

EFF_ONE == <<1, 1>>

\* Mutant of EffTimes: effectiveness = type_effect (assignment for multiplication)
EffAssign(eff, h) == <<h, 2>>

\* effectiveness *= type_effect, type_effect given doubled
EffTimes(eff, h) == <<eff[1] * h, eff[2] * 2>>

EffIsZero(eff) == eff[1] = 0

EffLessThanOne(eff) == eff[1] < eff[2]

RECURSIVE ResistsLoop(_, _, _, _)
ResistsLoop(types, i, attack_type, effectiveness) ==
    IF i > Len(types) THEN effectiveness
    ELSE LET poke_type == types[i] IN
         IF poke_type \in DOMAIN TYPE_CHART /\ attack_type \in DOMAIN TYPE_CHART[poke_type]
         THEN ResistsLoop(types, i + 1, attack_type,
                          EffTimes(effectiveness, TYPE_CHART[poke_type][attack_type]))
         ELSE ResistsLoop(types, i + 1, attack_type, effectiveness)

TypesResist(types, attack_type) == ResistsLoop(types, 1, attack_type, EFF_ONE)

resists_type(pokemon, attack_type) == TypesResist(pokemon.types, attack_type)

----------------------------------------------------------------------------
(* The data the runs are drawn from: builds, Pokemon, catalogs, tables. *)

\* A build of the new format: {"build": ..., "teamFit": [...]}
FitBuild(payload, fits) ==
    [isDict |-> TRUE, hasTeamFit |-> TRUE, teamFit |-> fits, build |-> payload]

\* A dict build without a teamFit key
PlainBuild(payload) ==
    [isDict |-> TRUE, hasTeamFit |-> FALSE, teamFit |-> {}, build |-> payload]

\* A build of the old format: a bare string
StrBuild(payload) ==
    [isDict |-> FALSE, hasTeamFit |-> FALSE, teamFit |-> {}, build |-> payload]

\* Pokemon.__init__
Pokemon(name, types, builds) == [name |-> name, types |-> types, builds |-> builds]

Rotom == Pokemon("rotom", <<"electric">>, <<FitBuild("rotom-a", {"balance", "offense"})>>)

Raikou == Pokemon("raikou", <<"electric">>, <<FitBuild("raikou-a", {"offense"})>>)

Togekiss ==
    Pokemon("togekiss", <<"fairy", "flying">>,
            <<FitBuild("togekiss-a", {"balance"}), FitBuild("togekiss-b", {"stall"})>>)

Gengar == Pokemon("Gengar", <<"ghost">>, <<StrBuild("gengar-a")>>)

Hippowdon == Pokemon("hippowdon", <<"ground">>, <<FitBuild("hippowdon-a", {"balance"})>>)

Vaporeon == Pokemon("vaporeon", <<"water">>, <<FitBuild("vaporeon-a", {"balance"})>>)

Duraludon == Pokemon("duraludon", <<"dragon", "steel">>, <<PlainBuild("duraludon-a")>>)

Ogerpon == Pokemon("ogerpon", <<"grass">>, <<FitBuild("ogerpon-a", {"balance"})>>)

OgerponWellspring ==
    Pokemon("ogerpon-wellspring", <<"grass", "water">>,
            <<FitBuild("ogerpon-w-a", {"balance", "offense"})>>)

\* str.lower() on the names that occur
Lower(s) ==
    CASE s = "Gengar" -> "gengar"
      [] s = "GENGAR" -> "gengar"
      [] s = "Togekiss" -> "togekiss"
      [] s = "Ogerpon" -> "ogerpon"
      [] OTHER -> s

\* is_ogerpon_form: "ogerpon" in pokemon_name.lower()
is_ogerpon_form(pokemon_name) == Lower(pokemon_name) \in {"ogerpon", "ogerpon-wellspring"}

EmptyCatalog == <<>>

ScenarioCatalog == <<Vaporeon, Duraludon, Hippowdon>>

CoverCatalog == <<Rotom, Raikou, Togekiss, Gengar, Hippowdon>>

PadCatalog == <<Vaporeon, Togekiss, Duraludon>>

OgerponCatalog == <<Ogerpon, OgerponWellspring, Rotom, Togekiss>>

BigCatalog == <<Rotom, Raikou, Togekiss, Gengar, Hippowdon, Vaporeon, Duraludon>>

OgerponBigCatalog ==
    <<Ogerpon, OgerponWellspring, Rotom, Raikou, Togekiss, Gengar, Hippowdon>>

HugeCatalog ==
    <<Rotom, Raikou, Togekiss, Gengar, Hippowdon, Vaporeon, Duraludon, Ogerpon>>

Catalogs ==
    {c \in {EmptyCatalog, ScenarioCatalog, CoverCatalog, PadCatalog, OgerponCatalog,
            BigCatalog, OgerponBigCatalog, HugeCatalog} : Len(c) <= MaxCatalog}

ZeroTable ==
    [i \in 1..Len(COVERAGE_REQUIREMENTS) |-> <<COVERAGE_REQUIREMENTS[i][1], 0>>]

ScenarioTable == << <<"water", 1>>, <<"dragon", 1>>, <<"electric", 1>> >>

Tables == {COVERAGE_REQUIREMENTS, ZeroTable, ScenarioTable}

Playstyles == {"", "balance"}

\* The keys of a requirement table, in declaration order
ReqKeys(req) == [i \in 1..Len(req) |-> req[i][1]]

\* COVERAGE_REQUIREMENTS[t]
ReqCount(req, t) == LET i == CHOOSE i \in 1..Len(req) : req[i][1] = t IN req[i][2]

----------------------------------------------------------------------------
(* Pokemon.has_matching_playstyle, Pokemon.get_random_build *)

BuildMatches(build, playstyle) ==
    build.isDict /\ build.hasTeamFit /\ playstyle \in build.teamFit

has_matching_playstyle(pokemon, playstyle) ==
    IF playstyle = "" THEN TRUE
    ELSE \E i \in 1..Len(pokemon.builds) : BuildMatches(pokemon.builds[i], playstyle)

\* valid_builds of get_random_build
ValidBuilds(builds, playstyle) ==
    IF playstyle # ""
    THEN LET Match(b) == BuildMatches(b, playstyle) IN SelectSeq(builds, Match)
    ELSE builds

\* The outcomes of get_random_build: random.choice(valid_builds) raises IndexError on
\* an empty list; otherwise any valid build's payload.
BuildOutcomes(builds, playstyle) ==
    LET valid_builds == ValidBuilds(builds, playstyle) IN
    IF valid_builds = <<>> THEN {[ok |-> FALSE, val |-> "IndexError"]}
    ELSE {[ok |-> TRUE, val |-> valid_builds[i].build] : i \in 1..Len(valid_builds)}

----------------------------------------------------------------------------
(* TeamBuilder.get_pokemon_with_resistance / get_pokemon_with_immunity *)

\* Mutant of get_pokemon_with_resistance: effectiveness <= 1.0 for < 1.0
get_pokemon_not_weak(attack_type, tm, playstyle) ==
    LET team_names == Range(Names(tm))
        Keep(pokemon) ==
            /\ pokemon.name \notin team_names
            /\ ~(playstyle # "" /\ ~has_matching_playstyle(pokemon, playstyle))
            /\ resists_type(pokemon, attack_type)[1] <= resists_type(pokemon, attack_type)[2]
    IN SelectSeq(pokemon_list, Keep)

get_pokemon_with_resistance(attack_type, tm, playstyle) ==
    LET team_names == Range(Names(tm))
        Keep(pokemon) ==
            /\ pokemon.name \notin team_names
            /\ ~(playstyle # "" /\ ~has_matching_playstyle(pokemon, playstyle))
            /\ EffLessThanOne(resists_type(pokemon, attack_type))
    IN SelectSeq(pokemon_list, Keep)

get_pokemon_with_immunity(attack_type, tm, playstyle) ==
    LET team_names == Range(Names(tm))
        Keep(pokemon) ==
            /\ pokemon.name \notin team_names
            /\ ~(playstyle # "" /\ ~has_matching_playstyle(pokemon, playstyle))
            /\ EffIsZero(resists_type(pokemon, attack_type))
    IN SelectSeq(pokemon_list, Keep)

----------------------------------------------------------------------------
(* TeamBuilder.build_team *)

\* Mutant of ZeroCoverage: the run starts with the first category already covered
FirstCoveredCoverage(req) ==
    [t \in Range(ReqKeys(req)) |-> IF t = req[1][1] THEN req[1][2] ELSE 0]

\* coverage = {type_name: 0 for type_name in COVERAGE_REQUIREMENTS}
ZeroCoverage(req) == [t \in Range(ReqKeys(req)) |-> 0]

\* Mutant of Unfulfilled: coverage[t] <= count for coverage[t] < count
UnfulfilledOrEqual(req, cov) ==
    LET Short(t) == cov[t] <= ReqCount(req, t) IN SelectSeq(ReqKeys(req), Short)

\* unfulfilled = {t: count for t, count in COVERAGE_REQUIREMENTS.items() if coverage[t] < count}
Unfulfilled(req, cov) ==
    LET Short(t) == cov[t] < ReqCount(req, t) IN SelectSeq(ReqKeys(req), Short)

\* max(unfulfilled.items(), key=lambda x: x[1] - coverage[x[0]])[0]: a left-to-right
\* scan that replaces the best item only by a strictly larger key.
RECURSIVE MaxScan(_, _, _, _, _)
MaxScan(unf, i, best, req, cov) ==
    IF i > Len(unf) THEN best
    ELSE IF ReqCount(req, unf[i]) - cov[unf[i]] > ReqCount(req, best) - cov[best]
         THEN MaxScan(unf, i + 1, unf[i], req, cov)
         ELSE MaxScan(unf, i + 1, best, req, cov)

\* Mutant of PriorityType: ties go to the last item (>= for >)
RECURSIVE MaxScanLast(_, _, _, _, _)
MaxScanLast(unf, i, best, req, cov) ==
    IF i > Len(unf) THEN best
    ELSE IF ReqCount(req, unf[i]) - cov[unf[i]] >= ReqCount(req, best) - cov[best]
         THEN MaxScanLast(unf, i + 1, unf[i], req, cov)
         ELSE MaxScanLast(unf, i + 1, best, req, cov)

PriorityTypeLastMax(unf, req, cov) == MaxScanLast(unf, 2, unf[1], req, cov)

PriorityType(unf, req, cov) == MaxScan(unf, 2, unf[1], req, cov)

\* Mutant of RemainingPokemon: the team's members are not filtered out
RemainingPokemonUnfiltered(list, tm) == list

\* [p for p in self.pokemon_list if p.name not in [t.name for t in team]]
RemainingPokemon(list, tm) ==
    LET Keep(p) == p.name \notin Range(Names(tm)) IN SelectSeq(list, Keep)

\* Mutant of UpdateCoverage: an immunity counts one like a resistance
UpdateCoverageImmuneAddsOne(cov, req, new_pokemon) ==
    [attack_type \in DOMAIN cov |->
        LET effectiveness == resists_type(new_pokemon, attack_type) IN
        IF EffLessThanOne(effectiveness) THEN cov[attack_type] + 1
        ELSE cov[attack_type]]

\* Mutant of UpdateCoverage: an immunity clears the count
UpdateCoverageImmuneClears(cov, req, new_pokemon) ==
    [attack_type \in DOMAIN cov |->
        LET effectiveness == resists_type(new_pokemon, attack_type) IN
        IF EffIsZero(effectiveness) THEN 0
        ELSE IF EffLessThanOne(effectiveness) THEN cov[attack_type] + 1
        ELSE cov[attack_type]]

\* The update loop over coverage after a pick
UpdateCoverage(cov, req, new_pokemon) ==
    [attack_type \in DOMAIN cov |->
        LET effectiveness == resists_type(new_pokemon, attack_type) IN
        IF EffIsZero(effectiveness) THEN ReqCount(req, attack_type)
        ELSE IF EffLessThanOne(effectiveness) THEN cov[attack_type] + 1
        ELSE cov[attack_type]]

\* Mutant of DelKey: the skip drops every deficit category
DelKeyAll(unf, t) == <<>>

\* del unfulfilled[priority_type]
DelKey(unf, t) == LET Keep(x) == x # t IN SelectSeq(unf, Keep)

\* Mutant of LoopTest: the loop stops one member early
LoopTestOffByOne(tm) == Len(tm) < TeamSize - 1

\* while len(team) < 6
LoopTest(tm) == Len(tm) < TeamSize

\* Mutant of NeedImmunity: the ground branch is never taken
NeedImmunityNever(p, cov) == FALSE

\* priority_type == "ground" and coverage[priority_type] == 0
NeedImmunity(p, cov) == p = "ground" /\ cov[p] = 0

\* Entry of build_team: team = [], coverage all zero
BuildTeamEntry ==
    /\ bt_pc' = "while"
    /\ team' = <<>>
    /\ coverage' = ZeroCoverage(requirements)
    /\ unfulfilled' = <<>>
    /\ priority_type' = ""
    /\ last_pick' = "none"
    /\ iters' = 0

\* The while test and the computation of unfulfilled
LoopHead ==
    /\ bt_pc = "while"
    /\ IF LoopTest(team)
       THEN /\ unfulfilled' = Unfulfilled(requirements, coverage)
            /\ iters' = Min(iters + 1, MaxIter)
            /\ bt_pc' = "body"
       ELSE /\ bt_pc' = "return"
            /\ UNCHANGED <<unfulfilled, iters>>
    /\ UNCHANGED <<mode, pokemon_list, requirements, team_playstyle, included_pokemon,
                   excluded_pokemon, team, coverage, priority_type, last_pick,
                   main_pc, main_team, has_ogerpon, output, error>>
    /\ UNCHANGED <<effVars, buildVars, loadVars>>

\* What no step of the loop body changes
BodyFrame ==
    /\ UNCHANGED <<mode, pokemon_list, requirements, team_playstyle, included_pokemon,
                   excluded_pokemon, iters, main_pc, main_team, has_ogerpon, output,
                   error>>
    /\ UNCHANGED <<effVars, buildVars, loadVars>>

\* if not unfulfilled: pick at random among the remaining Pokemon
PadPick ==
    /\ bt_pc = "body"
    /\ unfulfilled = <<>>
    /\ LET remaining_pokemon == RemainingPokemon(pokemon_list, team) IN
       /\ remaining_pokemon # <<>>
       /\ \E i \in 1..Len(remaining_pokemon) :
            LET new_pokemon == remaining_pokemon[i] IN
            /\ team' = Append(team, new_pokemon)
            /\ coverage' = UpdateCoverage(coverage, requirements, new_pokemon)
    /\ last_pick' = "pad"
    /\ bt_pc' = "while"
    /\ UNCHANGED <<unfulfilled, priority_type>>
    /\ BodyFrame

\* if not unfulfilled: no Pokemon remains, break
PadBreak ==
    /\ bt_pc = "body"
    /\ unfulfilled = <<>>
    /\ RemainingPokemon(pokemon_list, team) = <<>>
    /\ bt_pc' = "return"
    /\ UNCHANGED <<team, coverage, unfulfilled, priority_type, last_pick>>
    /\ BodyFrame

\* the ground branch: an immune Pokemon exists, pick one and continue
ImmunityPick ==
    /\ bt_pc = "body"
    /\ unfulfilled # <<>>
    /\ LET p == PriorityType(unfulfilled, requirements, coverage)
           immune_pokemon == get_pokemon_with_immunity(p, team, team_playstyle)
       IN /\ NeedImmunity(p, coverage)
          /\ immune_pokemon # <<>>
          /\ \E i \in 1..Len(immune_pokemon) : team' = Append(team, immune_pokemon[i])
          /\ coverage' = [coverage EXCEPT ![p] = ReqCount(requirements, p)]
          /\ priority_type' = p
    /\ last_pick' = "immune"
    /\ bt_pc' = "while"
    /\ UNCHANGED unfulfilled
    /\ BodyFrame

\* TRUE when the ground branch does not end the iteration
PastImmunity(p) ==
    ~(NeedImmunity(p, coverage) /\ get_pokemon_with_immunity(p, team, team_playstyle) # <<>>)

\* a resistant Pokemon exists: pick one and update coverage
ResistPick ==
    /\ bt_pc = "body"
    /\ unfulfilled # <<>>
    /\ LET p == PriorityType(unfulfilled, requirements, coverage)
           resistant_pokemon == get_pokemon_with_resistance(p, team, team_playstyle)
       IN /\ PastImmunity(p)
          /\ resistant_pokemon # <<>>
          /\ \E i \in 1..Len(resistant_pokemon) :
               LET new_pokemon == resistant_pokemon[i] IN
               /\ team' = Append(team, new_pokemon)
               /\ coverage' = UpdateCoverage(coverage, requirements, new_pokemon)
          /\ priority_type' = p
    /\ last_pick' = "resist"
    /\ bt_pc' = "while"
    /\ UNCHANGED unfulfilled
    /\ BodyFrame

\* no resistant Pokemon: del unfulfilled[priority_type]; other types remain; continue
SkipType ==
    /\ bt_pc = "body"
    /\ unfulfilled # <<>>
    /\ LET p == PriorityType(unfulfilled, requirements, coverage) IN
       /\ PastImmunity(p)
       /\ get_pokemon_with_resistance(p, team, team_playstyle) = <<>>
       /\ DelKey(unfulfilled, p) # <<>>
       /\ unfulfilled' = DelKey(unfulfilled, p)
       /\ priority_type' = p
    /\ bt_pc' = "while"
    /\ UNCHANGED <<team, coverage, last_pick>>
    /\ BodyFrame

\* no resistant Pokemon and no other unfulfilled type: pick at random, continue
SkipPadPick ==
    /\ bt_pc = "body"
    /\ unfulfilled # <<>>
    /\ LET p == PriorityType(unfulfilled, requirements, coverage)
           remaining_pokemon == RemainingPokemon(pokemon_list, team)
       IN /\ PastImmunity(p)
          /\ get_pokemon_with_resistance(p, team, team_playstyle) = <<>>
          /\ DelKey(unfulfilled, p) = <<>>
          /\ remaining_pokemon # <<>>
          /\ \E i \in 1..Len(remaining_pokemon) :
               LET new_pokemon == remaining_pokemon[i] IN
               /\ team' = Append(team, new_pokemon)
               /\ coverage' = UpdateCoverage(coverage, requirements, new_pokemon)
          /\ unfulfilled' = DelKey(unfulfilled, p)
          /\ priority_type' = p
    /\ last_pick' = "skip-pad"
    /\ bt_pc' = "while"
    /\ BodyFrame

\* no resistant Pokemon, no other unfulfilled type, no Pokemon remains: break
SkipBreak ==
    /\ bt_pc = "body"
    /\ unfulfilled # <<>>
    /\ LET p == PriorityType(unfulfilled, requirements, coverage) IN
       /\ PastImmunity(p)
       /\ get_pokemon_with_resistance(p, team, team_playstyle) = <<>>
       /\ DelKey(unfulfilled, p) = <<>>
       /\ RemainingPokemon(pokemon_list, team) = <<>>
       /\ unfulfilled' = DelKey(unfulfilled, p)
       /\ priority_type' = p
    /\ bt_pc' = "return"
    /\ UNCHANGED <<team, coverage, last_pick>>
    /\ BodyFrame

----------------------------------------------------------------------------
(* TeamBuilder.generate_team_output and main *)

IncludeLists ==
    { <<>>,
      <<"GENGAR">>,
      <<"togekiss", "Togekiss">>,
      <<"togekiss", "Togekiss", "rotom", "raikou", "gengar", "hippowdon">>,
      <<"ogerpon-wellspring", "Ogerpon", "rotom">>,
      <<"missingno", "raikou">>,
      <<"rotom", "raikou", "togekiss", "gengar", "hippowdon", "vaporeon", "duraludon">> }

ExcludeLists == { <<>>, <<"gengar">>, <<"Togekiss", "rotom">> }

\* [p.lower() for p in names]
LowerAll(names) == [i \in 1..Len(names) |-> Lower(names[i])]

\* The builds of the output loop: one get_random_build outcome per member, in order.
\* The result is the set of possible build lists; it is empty when a call raises.
RECURSIVE OutputChoices(_, _)
OutputChoices(tm, playstyle) ==
    IF tm = <<>> THEN {<<>>}
    ELSE LET firsts == {o \in BuildOutcomes(tm[1].builds, playstyle) : o.ok}
             rests == OutputChoices(Tail(tm), playstyle)
         IN {<<o.val>> \o r : o \in firsts, r \in rests}

\* The inner loop of the include path: scan the catalog from index j for the name.
\* Returns <<team, has_ogerpon>>.
RECURSIVE IncludeScan(_, _, _, _, _)
IncludeScan(list, j, name, tm, hasO) ==
    IF j > Len(list) THEN <<tm, hasO>>
    ELSE LET pokemon == list[j] IN
         IF Lower(pokemon.name) = Lower(name)
         THEN IF is_ogerpon_form(pokemon.name) /\ hasO
              THEN IncludeScan(list, j + 1, name, tm, hasO)
              ELSE <<Append(tm, pokemon), hasO \/ is_ogerpon_form(pokemon.name)>>
         ELSE IncludeScan(list, j + 1, name, tm, hasO)

\* The outer loop of the include path over included_pokemon, from index i
RECURSIVE PreSelect(_, _, _, _, _)
PreSelect(list, names, i, tm, hasO) ==
    IF i > Len(names) THEN <<tm, hasO>>
    ELSE LET r == IncludeScan(list, 1, names[i], tm, hasO) IN
         PreSelect(list, names, i + 1, r[1], r[2])

\* included_pokemon after the validation against the catalog's names
ValidIncludes(list, names) ==
    LET all_pokemon_names == Range(LowerAll(Names(list)))
        Valid(p) == Lower(p) \in all_pokemon_names
    IN SelectSeq(names, Valid)

\* available_pokemon of the include path
AvailablePokemon(list, excl, tm, hasO) ==
    LET excluded == Range(LowerAll(excl)) \cup Range(LowerAll(Names(tm)))
        Keep(p) == Lower(p.name) \notin excluded /\ ~(hasO /\ is_ogerpon_form(p.name))
    IN SelectSeq(list, Keep)

\* builder.pokemon_list after the exclusion of the no-include path
WithoutExcluded(list, excl) ==
    IF excl = <<>> THEN list
    ELSE LET Keep(p) == Lower(p.name) \notin Range(LowerAll(excl)) IN SelectSeq(list, Keep)

\* remaining_pokemon of the no-include loop
NextCandidates(list, tm, hasO) ==
    LET Keep(p) == p.name \notin Range(Names(tm)) /\ ~(hasO /\ is_ogerpon_form(p.name))
    IN SelectSeq(list, Keep)

\* What the steps of main and generate_team_output leave alone
ConfigFrame ==
    /\ UNCHANGED <<mode, requirements, team_playstyle, excluded_pokemon>>
    /\ UNCHANGED <<effVars, buildVars, loadVars>>

\* generate_team_output calls build_team
GenerateCall ==
    /\ mode = "select"
    /\ main_pc = "start"
    /\ main_pc' = "gen_call"
    /\ BuildTeamEntry
    /\ UNCHANGED <<pokemon_list, included_pokemon, main_team, has_ogerpon, output, error>>
    /\ ConfigFrame

\* generate_team_output: build_team returned; one build per member
GenerateOutput ==
    /\ main_pc = "gen_call"
    /\ bt_pc = "return"
    /\ LET choices == OutputChoices(team, team_playstyle) IN
       IF choices = {}
       THEN error' = "IndexError" /\ main_pc' = "crashed" /\ UNCHANGED output
       ELSE (\E o \in choices : output' = o) /\ main_pc' = "done" /\ UNCHANGED error
    /\ main_team' = team
    /\ bt_pc' = "idle"
    /\ UNCHANGED <<pokemon_list, included_pokemon, team, coverage, unfulfilled,
                   priority_type, last_pick, iters, has_ogerpon>>
    /\ ConfigFrame

\* main, include list not empty after validation: pre-select, then fill with build_team
MainInclude ==
    /\ mode = "main"
    /\ main_pc = "start"
    /\ LET included == ValidIncludes(pokemon_list, included_pokemon)
           pre == PreSelect(pokemon_list, included, 1, <<>>, FALSE)
           remaining_slots == TeamSize - Len(pre[1])
       IN /\ included # <<>>
          /\ included_pokemon' = included
          /\ main_team' = pre[1]
          /\ has_ogerpon' = pre[2]
          /\ IF remaining_slots > 0
             THEN /\ pokemon_list' =
                        AvailablePokemon(pokemon_list, excluded_pokemon, pre[1], pre[2])
                  /\ main_pc' = "include_call"
                  /\ BuildTeamEntry
             ELSE /\ main_pc' = "output"
                  /\ UNCHANGED <<pokemon_list, bt_pc, team, coverage, unfulfilled,
                                 priority_type, last_pick, iters>>
    /\ UNCHANGED <<output, error>>
    /\ ConfigFrame

\* main, include path: build_team returned; team.extend(remaining_team[:remaining_slots])
MainIncludeReturn ==
    /\ main_pc = "include_call"
    /\ bt_pc = "return"
    /\ main_team' = main_team \o Take(team, TeamSize - Len(main_team))
    /\ main_pc' = "output"
    /\ bt_pc' = "idle"
    /\ UNCHANGED <<pokemon_list, included_pokemon, team, coverage, unfulfilled,
                   priority_type, last_pick, iters, has_ogerpon, output, error>>
    /\ ConfigFrame

\* main, no include list: drop the excluded Pokemon, start the loop
MainNoInclude ==
    /\ mode = "main"
    /\ main_pc = "start"
    /\ LET included == ValidIncludes(pokemon_list, included_pokemon) IN
       /\ included = <<>>
       /\ included_pokemon' = included
    /\ pokemon_list' = WithoutExcluded(pokemon_list, excluded_pokemon)
    /\ main_team' = <<>>
    /\ has_ogerpon' = FALSE
    /\ main_pc' = "noinc_loop"
    /\ UNCHANGED <<bt_pc, team, coverage, unfulfilled, priority_type, last_pick, iters,
                   output, error>>
    /\ ConfigFrame

\* main, no-include loop: narrow the pool and call build_team for the next member
MainLoopCall ==
    /\ main_pc = "noinc_loop"
    /\ Len(main_team) < TeamSize
    /\ LET remaining_pokemon == NextCandidates(pokemon_list, main_team, has_ogerpon) IN
       /\ remaining_pokemon # <<>>
       /\ pokemon_list' = remaining_pokemon
    /\ main_pc' = "noinc_call"
    /\ BuildTeamEntry
    /\ UNCHANGED <<included_pokemon, main_team, has_ogerpon, output, error>>
    /\ ConfigFrame

\* main, no-include loop: build_team returned; next_pokemon = build_team(...)[0]
MainLoopReturn ==
    /\ main_pc = "noinc_call"
    /\ bt_pc = "return"
    /\ IF team = <<>>
       THEN /\ error' = "IndexError"
            /\ main_pc' = "crashed"
            /\ UNCHANGED <<main_team, has_ogerpon>>
       ELSE /\ main_team' = Append(main_team, team[1])
            /\ has_ogerpon' = (has_ogerpon \/ is_ogerpon_form(team[1].name))
            /\ main_pc' = "noinc_loop"
            /\ UNCHANGED error
    /\ bt_pc' = "idle"
    /\ UNCHANGED <<pokemon_list, included_pokemon, team, coverage, unfulfilled,
                   priority_type, last_pick, iters, output>>
    /\ ConfigFrame

\* main, no-include loop ends: the team is full or no candidate is left
MainLoopExit ==
    /\ main_pc = "noinc_loop"
    /\ \/ Len(main_team) >= TeamSize
       \/ NextCandidates(pokemon_list, main_team, has_ogerpon) = <<>>
    /\ main_pc' = "output"
    /\ UNCHANGED <<pokemon_list, included_pokemon, bt_pc, team, coverage, unfulfilled,
                   priority_type, last_pick, iters, main_team, has_ogerpon, output, error>>
    /\ ConfigFrame

\* main: one build per member, written to team_output.txt
MainOutput ==
    /\ main_pc = "output"
    /\ LET choices == OutputChoices(main_team, team_playstyle) IN
       IF choices = {}
       THEN error' = "IndexError" /\ main_pc' = "crashed" /\ UNCHANGED output
       ELSE (\E o \in choices : output' = o) /\ main_pc' = "done" /\ UNCHANGED error
    /\ UNCHANGED <<pokemon_list, included_pokemon, bt_pc, team, coverage, unfulfilled,
                   priority_type, last_pick, iters, main_team, has_ogerpon>>
    /\ ConfigFrame

----------------------------------------------------------------------------
(* The selection specification: generate_team_output over a catalog, a table *)
(* and a playstyle, and main over a catalog and a configuration.            *)

NotCalled == [called |-> FALSE, ok |-> FALSE, val |-> ""]

QueryIdle ==
    /\ q_types = <<>> /\ q_attack = "" /\ q_eff = <<>>
    /\ g_builds = <<>> /\ g_tag = "" /\ g_result = NotCalled

LoadIdle == db = <<>> /\ load_pc = "idle" /\ load_i = 0

RunIdle ==
    /\ bt_pc = "idle"
    /\ team = <<>>
    /\ coverage = ZeroCoverage(requirements)
    /\ unfulfilled = <<>>
    /\ priority_type = ""
    /\ last_pick = "none"
    /\ iters = 0
    /\ main_pc = "start"
    /\ main_team = <<>>
    /\ has_ogerpon = FALSE
    /\ output = <<>>
    /\ error = ""

Init ==
    /\ pokemon_list \in Catalogs
    /\ team_playstyle \in Playstyles
    /\ \/ /\ mode = "select"
          /\ requirements \in Tables
          /\ included_pokemon = <<>>
          /\ excluded_pokemon = <<>>
       \/ /\ mode = "main"
          /\ requirements = COVERAGE_REQUIREMENTS
          /\ included_pokemon \in IncludeLists
          /\ excluded_pokemon \in ExcludeLists
    /\ RunIdle
    /\ QueryIdle
    /\ LoadIdle

Next ==
    \/ GenerateCall
    \/ LoopHead
    \/ PadPick
    \/ PadBreak
    \/ ImmunityPick
    \/ ResistPick
    \/ SkipType
    \/ SkipPadPick
    \/ SkipBreak
    \/ GenerateOutput
    \/ MainInclude
    \/ MainIncludeReturn
    \/ MainNoInclude
    \/ MainLoopCall
    \/ MainLoopReturn
    \/ MainLoopExit
    \/ MainOutput

Spec == Init /\ [][Next]_vars

\* The program is one sequential thread: a step that can be taken is taken.
FairSpec == Spec /\ WF_vars(Next)

----------------------------------------------------------------------------
(* The effectiveness specification: Pokemon.resists_type applied to every type *)
(* list of up to MaxTypes types and every attack type.                        *)

RECURSIVE SeqsUpTo(_, _)
SeqsUpTo(S, n) ==
    IF n = 0 THEN {<<>>}
    ELSE LET shorter == SeqsUpTo(S, n - 1) IN
         shorter \cup {Append(q, x) : q \in {r \in shorter : Len(r) = n - 1}, x \in S}

NoRun ==
    /\ mode = "query"
    /\ pokemon_list = <<>>
    /\ requirements = COVERAGE_REQUIREMENTS
    /\ team_playstyle = ""
    /\ included_pokemon = <<>>
    /\ excluded_pokemon = <<>>
    /\ RunIdle
    /\ LoadIdle

InitEff ==
    /\ NoRun
    /\ q_types \in (SeqsUpTo(Types, MaxTypes) \ {<<>>})
    /\ q_attack \in Types
    /\ q_eff = <<>>
    /\ g_builds = <<>> /\ g_tag = "" /\ g_result = NotCalled

ResistsTypeCall ==
    /\ q_eff = <<>>
    /\ q_eff' = resists_type(Pokemon("query", q_types, <<>>), q_attack)
    /\ UNCHANGED <<q_types, q_attack>>
    /\ UNCHANGED <<selVars, buildVars, loadVars>>

NextEff == ResistsTypeCall

SpecEff == InitEff /\ [][NextEff]_vars

----------------------------------------------------------------------------
(* The build specification: Pokemon.get_random_build applied to every build *)
(* list of 1..MaxBuilds builds and every tag.                              *)

BuildPool ==
    { FitBuild("b-balance", {"balance"}), FitBuild("b-offense", {"offense"}),
      FitBuild("b-both", {"balance", "offense"}), FitBuild("b-none", {}),
      PlainBuild("b-plain"), StrBuild("b-str") }

Tags == {"", "balance", "offense"}

InitBuild ==
    /\ NoRun
    /\ q_types = <<>> /\ q_attack = "" /\ q_eff = <<>>
    /\ g_builds \in (SeqsUpTo(BuildPool, MaxBuilds) \ {<<>>})
    /\ g_tag \in Tags
    /\ g_result = NotCalled

GetRandomBuildCall ==
    /\ ~g_result.called
    /\ \E o \in BuildOutcomes(g_builds, g_tag) :
         g_result' = [called |-> TRUE, ok |-> o.ok, val |-> o.val]
    /\ UNCHANGED <<g_builds, g_tag>>
    /\ UNCHANGED <<selVars, effVars, loadVars>>

NextBuild == GetRandomBuildCall

SpecBuild == InitBuild /\ [][NextBuild]_vars

----------------------------------------------------------------------------
(* The loading specification: TeamBuilder._load_pokemon applied to every     *)
(* database of up to MaxDb entries drawn from well-formed and malformed ones. *)

\* A JSON entry: its name and, for the keys "types" and "builds", whether the key
\* is present and the list it holds
Entry(name, has_types, types, has_builds, builds) ==
    [name |-> name, has_types |-> has_types, types |-> types,
     has_builds |-> has_builds, builds |-> builds]

VaporeonEntry == Entry("vaporeon", TRUE, <<"water">>, TRUE, Vaporeon.builds)

TogekissEntry == Entry("togekiss", TRUE, <<"fairy", "flying">>, TRUE, Togekiss.builds)

\* "types" missing (like Excadrill in the dataset)
ExcadrillEntry == Entry("excadrill", FALSE, <<>>, TRUE, <<FitBuild("excadrill-a", {"offense"})>>)

\* "types": []
TypelessEntry == Entry("typeless", TRUE, <<>>, TRUE, <<FitBuild("typeless-a", {"balance"})>>)

\* "builds": []
BuildlessEntry == Entry("buildless", TRUE, <<"steel">>, TRUE, <<>>)

\* "builds" missing
NoBuildsKeyEntry == Entry("nobuilds", TRUE, <<"dark">>, FALSE, <<>>)

Entries ==
    {VaporeonEntry, TogekissEntry, ExcadrillEntry, TypelessEntry, BuildlessEntry,
     NoBuildsKeyEntry}

\* entry.get("types"): None when the key is missing; None and [] are falsy
GetTypesFalsy(entry) == ~entry.has_types \/ entry.types = <<>>

InitLoad ==
    /\ mode = "load"
    /\ pokemon_list = <<>>
    /\ requirements = COVERAGE_REQUIREMENTS
    /\ team_playstyle = ""
    /\ included_pokemon = <<>>
    /\ excluded_pokemon = <<>>
    /\ RunIdle
    /\ QueryIdle
    /\ db \in SeqsUpTo(Entries, MaxDb)
    /\ load_pc = "start"
    /\ load_i = 0

\* What no step of _load_pokemon changes
LoadFrame ==
    /\ UNCHANGED <<mode, requirements, team_playstyle, included_pokemon, excluded_pokemon,
                   bt_pc, team, coverage, unfulfilled, priority_type, last_pick, iters,
                   main_pc, main_team, has_ogerpon, output, db>>
    /\ UNCHANGED <<effVars, buildVars>>

\* data = json.load(f); pokemon_list = []
LoadOpen ==
    /\ load_pc = "start"
    /\ pokemon_list' = <<>>
    /\ load_i' = 1
    /\ load_pc' = "for"
    /\ UNCHANGED error
    /\ LoadFrame

\* if not entry.get("types"): continue
LoadSkip ==
    /\ load_pc = "for"
    /\ load_i <= Len(db)
    /\ GetTypesFalsy(db[load_i])
    /\ load_i' = load_i + 1
    /\ UNCHANGED <<pokemon_list, load_pc, error>>
    /\ LoadFrame

\* Pokemon(name=entry["name"], types=entry["types"], builds=entry["builds"]); append
LoadAppend ==
    /\ load_pc = "for"
    /\ load_i <= Len(db)
    /\ ~GetTypesFalsy(db[load_i])
    /\ db[load_i].has_builds
    /\ pokemon_list' =
         Append(pokemon_list, Pokemon(db[load_i].name, db[load_i].types, db[load_i].builds))
    /\ load_i' = load_i + 1
    /\ UNCHANGED <<load_pc, error>>
    /\ LoadFrame

\* entry["builds"] on an entry without the key raises KeyError
LoadKeyError ==
    /\ load_pc = "for"
    /\ load_i <= Len(db)
    /\ ~GetTypesFalsy(db[load_i])
    /\ ~db[load_i].has_builds
    /\ error' = "KeyError"
    /\ load_pc' = "crashed"
    /\ UNCHANGED <<pokemon_list, load_i>>
    /\ LoadFrame

\* return pokemon_list
LoadReturn ==
    /\ load_pc = "for"
    /\ load_i > Len(db)
    /\ load_pc' = "done"
    /\ UNCHANGED <<pokemon_list, load_i, error>>
    /\ LoadFrame

NextLoad ==
    \/ LoadOpen
    \/ LoadSkip
    \/ LoadAppend
    \/ LoadKeyError
    \/ LoadReturn

SpecLoad == InitLoad /\ [][NextLoad]_vars

----------------------------------------------------------------------------
(* Claims C1..C10 *)

\* A build_team run has been entered and has not been handed back to its caller.
InRun == bt_pc # "idle"

\* The names of the catalog are pairwise distinct.
DistinctCatalog == NoDuplicates(Names(pokemon_list))

\* C1: for every catalog of pairwise distinct names, in every state of a build_team
\* run and in the returned team, no two members have the same name and the team has
\* at most TeamSize (6) members.
C1_NoDuplicatesAtMostSix ==
    (InRun /\ DistinctCatalog) =>
        (NoDuplicates(Names(team)) /\ Len(team) <= TeamSize)

\* C1 witness: a run over the reference table returned a full team from a catalog
\* that holds more than TeamSize Pokemon.
C1_Witness ==
    /\ bt_pc = "return"
    /\ requirements = COVERAGE_REQUIREMENTS
    /\ Len(team) = TeamSize
    /\ Len(pokemon_list) > TeamSize

\* The start of generate_team_output over the reference table and an empty catalog.
EmptyStart ==
    /\ mode = "select"
    /\ main_pc = "start"
    /\ pokemon_list = <<>>
    /\ requirements = COVERAGE_REQUIREMENTS

\* C2: build_team on an empty catalog with the reference table terminates, raises no
\* error and returns a team of length 0.
C2_EmptyCatalogReturnsEmpty ==
    EmptyStart ~> (bt_pc = "return" /\ team = <<>> /\ error = "")

\* C3: every build_team run terminates after at most TeamSize (6) iterations of its
\* main loop: no run enters the loop body a seventh time.
C3_AtMostTeamSizeIterations == InRun => iters <= TeamSize

\* C4: whenever build_team returns, the team has exactly TeamSize members or every
\* Pokemon of the catalog is in the team.
C4_FullOrPoolExhausted ==
    bt_pc = "return" =>
        \/ Len(team) = TeamSize
        \/ \A i \in 1..Len(pokemon_list) : pokemon_list[i].name \in Range(Names(team))

\* C4 witness: build_team returned a team shorter than TeamSize that took every
\* Pokemon of a non-empty catalog.
C4_Witness ==
    /\ bt_pc = "return"
    /\ pokemon_list # <<>>
    /\ Len(team) < TeamSize
    /\ Len(team) = Len(pokemon_list)

\* A generate_team_output run over the table whose counts are all 0.
ZeroRun == mode = "select" /\ requirements = ZeroTable

\* The list the padding pick draws from holds exactly the Pokemon of the catalog
\* that are not yet in the team.
PadDrawsFromAllRemaining ==
    LET remaining_pokemon == RemainingPokemon(pokemon_list, team) IN
    \A i \in 1..Len(pokemon_list) :
        (pokemon_list[i].name \notin Range(Names(team)))
            <=> (pokemon_list[i] \in Range(remaining_pokemon))

\* C5: with every count of the table 0 a run never takes the deficit path (no
\* category is ever unfulfilled, no priority type is ever chosen), every pick is a
\* padding pick drawn from all the Pokemon not yet in the team, the run terminates
\* (the loop body is never entered more than TeamSize times), and the result has
\* min(TeamSize, catalog size) members without duplicates.
C5_ZeroTablePadsOnly ==
    ZeroRun =>
        /\ last_pick \in {"none", "pad"}
        /\ priority_type = ""
        /\ unfulfilled = <<>>
        /\ iters <= TeamSize
        /\ (bt_pc = "body" => PadDrawsFromAllRemaining)
        /\ (bt_pc = "return" =>
              /\ Len(team) = Min(TeamSize, Len(pokemon_list))
              /\ NoDuplicates(Names(team)))

\* C5 witness: a run over the all-zero table returned TeamSize padding picks from a
\* catalog that holds more.
C5_Witness ==
    /\ ZeroRun
    /\ bt_pc = "return"
    /\ last_pick = "pad"
    /\ Len(team) = TeamSize
    /\ Len(pokemon_list) > TeamSize

\* The start of the scenario: catalog A (water), B (dragon, steel), C (ground) and
\* requirements water 1, dragon 1, electric 1.
ScenarioStart ==
    /\ mode = "select"
    /\ main_pc = "start"
    /\ pokemon_list = ScenarioCatalog
    /\ requirements = ScenarioTable

\* C6: every run of the scenario terminates with the team {A, B, C}, and the
\* electric coverage count stands at its required value, set by C's selection.
C6_ScenarioSelectsABC ==
    ScenarioStart ~>
        /\ bt_pc = "return"
        /\ Range(Names(team)) = {"vaporeon", "duraludon", "hippowdon"}
        /\ Len(team) = 3
        /\ coverage["electric"] = ReqCount(requirements, "electric")

\* C7: no step that adds a Pokemon to the team decreases the coverage count of any
\* tracked category.
C7_CoverageNeverDecreases ==
    [][Len(team') = Len(team) + 1 =>
          \A c \in DOMAIN coverage : coverage'[c] >= coverage[c]]_vars

\* The chart multiplier of a (defensive, attack) pair as a rational; an absent pair
\* counts as 1.
PairMultiplier(def_type, attack_type) ==
    IF def_type \in DOMAIN TYPE_CHART /\ attack_type \in DOMAIN TYPE_CHART[def_type]
    THEN <<TYPE_CHART[def_type][attack_type], 2>>
    ELSE <<1, 1>>

RatMul(a, b) == <<a[1] * b[1], a[2] * b[2]>>

RatEq(a, b) == a[1] * b[2] = b[1] * a[2]

\* The product of the pair multipliers over a type list, taken from the right.
RECURSIVE MultiplierProduct(_, _)
MultiplierProduct(types, attack_type) ==
    IF types = <<>> THEN <<1, 1>>
    ELSE RatMul(MultiplierProduct(SubSeq(types, 1, Len(types) - 1), attack_type),
                PairMultiplier(types[Len(types)], attack_type))

AllPairsAbsent(types, attack_type) ==
    \A i \in 1..Len(types) :
        ~(types[i] \in DOMAIN TYPE_CHART /\ attack_type \in DOMAIN TYPE_CHART[types[i]])

\* C8: resists_type equals the product over the Pokemon's types of the chart
\* multiplier, an absent pair counting as 1; two identical types give the square of
\* the single multiplier; all pairs absent gives 1, neither immune nor resistant.
C8_ProductOfMultipliers ==
    q_eff # <<>> =>
        /\ RatEq(q_eff, MultiplierProduct(q_types, q_attack))
        /\ (Len(q_types) = 2 /\ q_types[1] = q_types[2] =>
              RatEq(q_eff, RatMul(PairMultiplier(q_types[1], q_attack),
                                  PairMultiplier(q_types[1], q_attack))))
        /\ (AllPairsAbsent(q_types, q_attack) =>
              /\ RatEq(q_eff, <<1, 1>>)
              /\ ~EffIsZero(q_eff)
              /\ ~EffLessThanOne(q_eff))

\* C8 witness: a Pokemon with two identical types was scored against an attack type
\* its type resists, and came out doubly resistant (1/4).
C8_Witness ==
    /\ q_eff # <<>>
    /\ Len(q_types) = 2
    /\ q_types[1] = q_types[2]
    /\ RatEq(q_eff, <<1, 4>>)

\* C9: for a non-empty build list and any tag, get_random_build never fails and
\* returns the payload of one of the builds: one whose teamFit holds the tag when a
\* build carries it, and one of the full list when no tag is given or no build
\* carries the tag.
C9_BuildNeverFails ==
    g_result.called =>
        /\ g_result.ok
        /\ \E i \in 1..Len(g_builds) :
             /\ g_builds[i].build = g_result.val
             /\ (g_tag # "" /\ (\E j \in 1..Len(g_builds) : BuildMatches(g_builds[j], g_tag))
                   => BuildMatches(g_builds[i], g_tag))

\* C10: a Pokemon named in the exclude list (compared case-insensitively) never
\* appears in the team main produces, whatever the include list and playstyle.
C10_ExcludedNeverInTeam ==
    mode = "main" =>
        \A i \in 1..Len(main_team) :
            Lower(main_team[i].name) \notin Range(LowerAll(excluded_pokemon))

----------------------------------------------------------------------------
(* Claims C11..C20 *)

\* required - current coverage of a category
Gap(c) == ReqCount(requirements, c) - coverage[c]

\* The categories in deficit: coverage strictly below the required count
Deficits == {c \in DOMAIN coverage : coverage[c] < ReqCount(requirements, c)}

\* The position of a category in the requirement table's declaration order
DeclIndex(c) == CHOOSE i \in 1..Len(requirements) : requirements[i][1] = c

\* c is a deficit category of maximum gap, the first declared among those
FirstMaxGapDeficit(c) ==
    /\ c \in Deficits
    /\ \A d \in Deficits : Gap(d) <= Gap(c)
    /\ \A d \in Deficits : Gap(d) = Gap(c) => DeclIndex(c) <= DeclIndex(d)

\* A step of the loop body taken while some category is in deficit
DeficitBodyStep == bt_pc = "body" /\ Deficits # {} /\ bt_pc' # "body"

\* C11: whenever a category is in deficit, the priority category build_team chooses
\* is a deficit category of maximum gap (required - coverage) and, among the deficit
\* categories of that gap, the one declared first in the requirement table.
C11_PriorityIsFirstMaxGap ==
    [][DeficitBodyStep => FirstMaxGapDeficit(priority_type')]_vars

\* C11 witness: on the reference table the loop chose water, the first declared
\* category, while another category was in deficit with the same gap.
C11_Witness ==
    /\ bt_pc = "while"
    /\ last_pick = "none"
    /\ requirements = COVERAGE_REQUIREMENTS
    /\ priority_type = "water"
    /\ Cardinality({c \in Deficits : Gap(c) = Gap("water")}) > 1

\* The iteration that just ended skipped priority_type: the category is still in
\* deficit and was deleted from unfulfilled, and one of the deficit categories that
\* remain has an unchosen resistant-or-immune candidate
JustSkipped ==
    /\ bt_pc = "while"
    /\ priority_type \in Range(Unfulfilled(requirements, coverage))
    /\ priority_type \notin Range(unfulfilled)
    /\ \E i \in 1..Len(unfulfilled) :
         get_pokemon_with_resistance(unfulfilled[i], team, team_playstyle) # <<>>

\* C12: when the priority category has no remaining resistant-or-immune candidate but
\* another deficit category has one, build_team skips the unsatisfiable category and
\* goes on with the remaining deficit categories: the iteration that follows a skip
\* does not choose the skipped category again, so the skip does not block progress.
C12_SkippedCategoryStaysSkipped ==
    [][(JustSkipped /\ bt_pc' = "body")
         => PriorityType(unfulfilled', requirements, coverage') # priority_type]_vars

\* The member a step appends to the team (the step grows the team by one)
TeamGrows == Len(team') = Len(team) + 1 /\ team' = Append(team, team'[Len(team')])

\* The coverage rule of the resistant and padding paths for one category
CoverageRule(c, new_pokemon) ==
    LET m == resists_type(new_pokemon, c) IN
    IF m[1] = 0 THEN coverage'[c] = ReqCount(requirements, c)
    ELSE IF m[1] < m[2] THEN coverage'[c] = coverage[c] + 1
    ELSE coverage'[c] = coverage[c]

\* C13: every pick made on the resistant path or on a padding path updates coverage
\* for every tracked category c from the multiplier m of the new member: m = 0 sets
\* coverage[c] to required[c], 0 < m < 1 adds one, m >= 1 leaves it unchanged.
C13_PickUpdatesEveryCategory ==
    [][(bt_pc = "body" /\ TeamGrows /\ last_pick' \in {"resist", "pad", "skip-pad"})
         => \A c \in DOMAIN coverage : CoverageRule(c, team'[Len(team')])]_vars

\* C13 witness: a pick made on the resistant path is immune to one tracked category
\* (coverage set to the required count), resists another (coverage raised) and is
\* neutral or weak to a third that stays uncovered.
C13_Witness ==
    /\ bt_pc = "while"
    /\ last_pick = "resist"
    /\ LET new_pokemon == team[Len(team)] IN
       /\ \E c \in DOMAIN coverage :
            /\ EffIsZero(resists_type(new_pokemon, c))
            /\ coverage[c] = ReqCount(requirements, c)
            /\ coverage[c] > 1
       /\ \E c \in DOMAIN coverage :
            /\ ~EffIsZero(resists_type(new_pokemon, c))
            /\ EffLessThanOne(resists_type(new_pokemon, c))
            /\ coverage[c] >= 1
       /\ \E c \in DOMAIN coverage :
            /\ ~EffLessThanOne(resists_type(new_pokemon, c))
            /\ coverage[c] = 0

\* The unchosen catalog entities that match the playstyle and are immune to ground
GroundImmuneCandidates ==
    {i \in 1..Len(pokemon_list) :
        /\ pokemon_list[i].name \notin Range(Names(team))
        /\ (team_playstyle = "" \/ has_matching_playstyle(pokemon_list[i], team_playstyle))
        /\ resists_type(pokemon_list[i], "ground")[1] = 0}

\* The loop body is entered with ground as priority category and nothing covering it
GroundUncovered ==
    /\ bt_pc = "body"
    /\ unfulfilled # <<>>
    /\ FirstMaxGapDeficit("ground")
    /\ coverage["ground"] = 0

\* C14: when the priority category is ground, its coverage is exactly 0 and at least
\* one unchosen playstyle-matching entity is immune to ground, the next pick is one
\* of those entities, coverage[ground] becomes required[ground] and the coverage of
\* every other category is unchanged.
C14_GroundImmunityPreferred ==
    [][(GroundUncovered /\ GroundImmuneCandidates # {})
         => /\ \E i \in GroundImmuneCandidates : team' = Append(team, pokemon_list[i])
            /\ coverage' = [coverage EXCEPT !["ground"] = ReqCount(requirements, "ground")]
       ]_vars

\* C14 witness: the ground branch picked an immune entity that also resists another
\* category, and that category's coverage is still 0.
C14_Witness ==
    /\ bt_pc = "while"
    /\ last_pick = "immune"
    /\ priority_type = "ground"
    /\ coverage["ground"] = ReqCount(requirements, "ground")
    /\ \E c \in DOMAIN coverage :
         /\ c # "ground"
         /\ EffLessThanOne(resists_type(team[Len(team)], c))
         /\ coverage[c] = 0

\* The unchosen playstyle-matching catalog entities with a multiplier below 1
\* against category c (resistant or immune)
ResistCandidates(c) ==
    {i \in 1..Len(pokemon_list) :
        /\ pokemon_list[i].name \notin Range(Names(team))
        /\ (team_playstyle = "" \/ has_matching_playstyle(pokemon_list[i], team_playstyle))
        /\ LET m == resists_type(pokemon_list[i], c) IN m[1] < m[2]}

\* c is the priority category of the current iteration and has candidates
PriorityHasCandidates(c) ==
    /\ bt_pc = "body"
    /\ unfulfilled # <<>>
    /\ FirstMaxGapDeficit(c)
    /\ ResistCandidates(c) # {}

\* C15: every entity appended while the priority category has a non-empty candidate
\* set is not already in the team and has a multiplier below 1 against the priority
\* category, so the coverage of the priority category strictly increases.
C15_PickResistsPriority ==
    [][\A c \in DOMAIN coverage :
         (PriorityHasCandidates(c) /\ TeamGrows)
           => /\ team'[Len(team')].name \notin Range(Names(team))
              /\ LET m == resists_type(team'[Len(team')], c) IN m[1] < m[2]
              /\ coverage'[c] > coverage[c]]_vars

\* C15 witness: a second member was picked for the same priority category, which it
\* resists without being immune, and the category went from 1 to 2.
C15_Witness ==
    /\ bt_pc = "while"
    /\ last_pick = "resist"
    /\ Len(team) >= 2
    /\ LET m == resists_type(team[Len(team)], priority_type) IN m[1] > 0 /\ m[1] < m[2]
    /\ EffLessThanOne(resists_type(team[Len(team) - 1], priority_type))
    /\ coverage[priority_type] = 2
    /\ ReqCount(requirements, priority_type) = 2

\* The unchosen catalog entities with a multiplier below 1 against category c,
\* whatever their builds
UnchosenResistant(c) ==
    {i \in 1..Len(pokemon_list) :
        /\ pokemon_list[i].name \notin Range(Names(team))
        /\ LET m == resists_type(pokemon_list[i], c) IN m[1] < m[2]}

\* A step that makes an arbitrary pick (the padding path, directly or after a skip)
ArbitraryPick == bt_pc = "body" /\ TeamGrows /\ last_pick' \in {"pad", "skip-pad"}

\* C16 as stated: an arbitrary pick is made only where no category is in deficit or
\* no deficit category has any unchosen resistant-or-immune candidate.
C16_PaddingOnlyAfterGreedy ==
    [][ArbitraryPick => \A c \in Deficits : UnchosenResistant(c) = {}]_vars

\* C16 amended: an arbitrary pick is made only where no category is in deficit or
\* no deficit category has any unchosen resistant-or-immune candidate that matches
\* the team playstyle.
C16_PaddingOnlyAfterEligibleGreedy ==
    [][ArbitraryPick => \A c \in Deficits : ResistCandidates(c) = {}]_vars

\* C16 witness: with a playstyle, an arbitrary pick was made for a category that is
\* still in deficit and has an unchosen resistant entity, none matching the playstyle.
C16_Witness ==
    /\ bt_pc = "while"
    /\ last_pick = "skip-pad"
    /\ team_playstyle # ""
    /\ priority_type \in Deficits
    /\ UnchosenResistant(priority_type) # {}
    /\ ResistCandidates(priority_type) = {}

\* C17: when build_team is called with a team_playstyle, every entity of the returned
\* team has at least one build whose teamFit contains that playstyle, on the deficit
\* path and on the padding path alike.
C17_TeamMatchesPlaystyle ==
    (bt_pc = "return" /\ team_playstyle # "")
        => \A i \in 1..Len(team) : has_matching_playstyle(team[i], team_playstyle)

\* The entries of the database that are malformed: no categories or no builds
Malformed(entry) ==
    \/ ~entry.has_types \/ entry.types = <<>>
    \/ ~entry.has_builds \/ entry.builds = <<>>

\* C18: loading the catalog excludes every malformed entity: an entry with no
\* categories and an entry with no builds are left out of the catalog, loading raises
\* no error, and no entity with an empty category list or an empty build list is in
\* the catalog that selection draws its candidates from.
C18_LoadExcludesMalformed ==
    /\ error = ""
    /\ load_pc = "done"
         => /\ \A i \in 1..Len(pokemon_list) :
                 pokemon_list[i].types # <<>> /\ pokemon_list[i].builds # <<>>
            /\ \A i \in 1..Len(db) :
                 Malformed(db[i]) => db[i].name \notin Range(Names(pokemon_list))

\* C19: the team that main writes out has at most 6 members and no duplicate entity,
\* for every include list (one that repeats a name or names more than 6 catalog
\* entities included), exclude list and catalog.
C19_MainTeamAtMostSixDistinct ==
    (mode = "main" /\ main_pc = "done")
        => Len(main_team) <= TeamSize /\ NoDuplicates(Names(main_team))

\* The number of Ogerpon forms among the members of a team
OgerponCount(tm) == Cardinality({i \in 1..Len(tm) : is_ogerpon_form(tm[i].name)})

\* C20: the team that main produces contains at most one Ogerpon form, on both
\* paths: with an include list (naming an Ogerpon form or not) and without one.
C20_AtMostOneOgerpon ==
    (mode = "main" /\ main_pc = "done") => OgerponCount(main_team) <= 1

----------------------------------------------------------------------------
(* Claims C21..C22 *)

\* The requirement of category c is satisfied by the coverage cov
Satisfied(c, cov) == cov[c] >= ReqCount(requirements, c)

\* C21: within one build_team run a satisfied requirement stays satisfied: once
\* coverage[c] >= required[c] holds for a category c it holds after every later step
\* of the run, so the set of deficit categories never gains a member.
C21_SatisfiedStaysSatisfied ==
    [][(InRun /\ bt_pc' # "idle")
         => \A c \in DOMAIN coverage : Satisfied(c, coverage) => Satisfied(c, coverage')]_vars

\* C21 witness: on the reference table a category that two earlier members already
\* covered is reset to its required count by a member immune to it, and is satisfied.
C21_Witness ==
    /\ bt_pc = "while"
    /\ requirements = COVERAGE_REQUIREMENTS
    /\ Len(team) >= 3
    /\ \E c \in DOMAIN coverage :
         /\ EffIsZero(resists_type(team[Len(team)], c))
         /\ Cardinality({i \in 1..(Len(team) - 1) :
                            EffLessThanOne(resists_type(team[i], c))}) >= 2
         /\ coverage[c] = ReqCount(requirements, c)
         /\ ReqCount(requirements, c) = 1

\* The catalog entities of the pool with a multiplier below 1 against water
WaterResistantInPool ==
    {i \in 1..Len(pokemon_list) :
        LET m == resists_type(pokemon_list[i], "water") IN m[1] < m[2]}

\* A step of main's no-include loop that adds the member of the round to the team
RoundAddsMember ==
    /\ mode = "main"
    /\ main_pc = "noinc_call"
    /\ Len(main_team') = Len(main_team) + 1

\* The first pick of a build_team run called from main's no-include loop
FirstPickOfRound ==
    /\ mode = "main"
    /\ main_pc = "noinc_call"
    /\ team = <<>>
    /\ TeamGrows

\* C22: on main's no-include path every team member is the first pick of a fresh
\* build_team run whose coverage starts at zero, whatever the earlier members cover:
\* as long as the narrowed pool contains an entity resistant or immune to water, the
\* member added in that round is resistant or immune to water.
C22_RoundMemberResistsWater ==
    [][/\ FirstPickOfRound => \A c \in DOMAIN coverage : coverage[c] = 0
       /\ RoundAddsMember =>
            /\ main_team' = Append(main_team, team[1])
            /\ WaterResistantInPool # {} =>
                 EffLessThanOne(resists_type(team[1], "water"))]_vars

\* C22 witness: two members resistant to water are in the team, which would satisfy
\* the water requirement of a single run, and the round just ended added a third
\* member resistant to water.
C22_Witness ==
    /\ mode = "main"
    /\ main_pc = "noinc_loop"
    /\ Len(main_team) >= 3
    /\ \A i \in 1..3 : EffLessThanOne(resists_type(main_team[i], "water"))
    /\ main_team[Len(main_team)] = team[1]

====
